---- MODULE Spec2Model ----
(***************************************************************************)
(* Model of the ceph_config_key Ansible module and its helpers.            *)
(*                                                                         *)
(*   src/modules/ceph_config_key.py   main, get_config_dump, set_option,   *)
(*                                    get_current_value, build_base_cmd*,  *)
(*                                    exit_module, fatal, retry            *)
(*   src/module_utils/ceph_common.py  generate_cmd, container_exec,        *)
(*                                    is_containerized, pre_generate_cmd   *)
(*                                                                         *)
(* Representation.  A Python str is a sequence of chunks; a chunk is a     *)
(* TLA+ string holding either one character of a variable text ("a", "A",  *)
(* "\n") or a whole literal of the source ("cephadm", "option=").  A       *)
(* command is a sequence of such strs.  An Optional[...] is a set with at  *)
(* most one element: None is {} and a value v is {v}.  A dict is a         *)
(* function whose domain is its key set.  Timestamps (start, end, delta)   *)
(* of the RunReport are left out: no decision of the code reads them.      *)
(***************************************************************************)
EXTENDS Integers, Sequences, FiniteSets, TLC

\* ------------------------------------------------------------------ bounds

\* longest option value explored
MaxLen == 1
\* largest return code an external command produces
MaxRc == 1
\* largest attempt budget (retries) a function is decorated with
MaxRetries == 3
\* invocations of the decorated function that are followed
MaxInvocations == 2
\* the longest stdout and stderr handed to exit_module directly
MaxText == 3

\* ----------------------------------------------------------------- strings

None == {}
Some(v) == {v}
The(o) == CHOOSE v \in o : TRUE

\* Python truthiness of an Optional[str]: None and "" are falsy
Truthy(o) == o # None /\ The(o) # <<>>

LowerChar(c) ==
  CASE c = "A" -> "a"
    [] c = "B" -> "b"
    [] c = "K" -> "k"
    [] OTHER -> c

\* str.lower()
Lower(s) == [i \in 1..Len(s) |-> LowerChar(s[i])]

Whitespace == {" ", "\n", "\r", "\t"}
CRLF == {"\r", "\n"}

RECURSIVE RStripChars(_, _)
\* str.rstrip(chars)
RStripChars(s, chars) ==
  IF s # <<>> /\ s[Len(s)] \in chars
  THEN RStripChars(SubSeq(s, 1, Len(s) - 1), chars)
  ELSE s

RECURSIVE LStripChars(_, _)
\* str.lstrip(chars)
LStripChars(s, chars) ==
  IF s # <<>> /\ s[1] \in chars
  THEN LStripChars(Tail(s), chars)
  ELSE s

\* str.strip()
Strip(s) == LStripChars(RStripChars(s, Whitespace), Whitespace)

\* ------------------------------------------------------- inputs explored

ValueChars == {"a", "A"}
Values == UNION {[1..n -> ValueChars] : n \in 0..MaxLen}
Options == {<<"k">>, <<"K">>}
Actions == {"get", "set"}
Fsids == {None, Some(<<"f">>)}
Images == {None, Some(<<"i">>)}
RCs == 0..MaxRc
\* what the external commands print
Errs == {<<>>, <<"\n", "e", "\n">>}
Outs == {<<"o">>, <<" ", "o", "\n">>}

\* ------------------------------------------------------------------ state

VARIABLES
  store,          \* the cluster's config-key store: option -> value
  pc,             \* position of the run of main
  check_mode,     \* module.check_mode
  params,         \* module.params
  rc, cmd, out, err, changed, current_value,   \* locals of main
  executed,       \* the commands run_command has run in this run, with results
                  \* (the dump's stdout is not logged: the local out holds it)
  outcome,        \* how the run ended: exit_json(report) or fail_json
  prev,           \* summary of the run before this one, when nothing wrote between
  interfered      \* another writer wrote the store since this run started

mainVars == <<pc, check_mode, params, rc, cmd, out, err, changed, current_value,
              executed, outcome, prev, interfered>>

VARIABLES
  r_pc,           \* position of the decorated function: retry, decorator, _retry
  retries,        \* retry's parameter retries
  delay,          \* retry's parameter delay
  debug_varargs,  \* module.debug accepts the four-argument call of _retry
  tries,          \* _tries of _retry
  calls,          \* the calls of f made by this invocation, with how each ended
  slept,          \* the delays time.sleep was called with by this invocation
  r_result,       \* what the invocation returned or raised
  invocations     \* invocations of the decorated function so far, with their calls

retryVars == <<r_pc, retries, delay, debug_varargs, tries, calls, slept, r_result,
               invocations>>

VARIABLES
  environ,        \* os.environ: CEPH_CONTAINER_IMAGE and CEPH_CONTAINER_BINARY
  built,          \* the command the builder returned last
  built_by,       \* the builder that returned it
  b_in            \* the arguments and the environment of that build

cmdVars == <<environ, built, built_by, b_in>>

VARIABLES
  x_in,           \* the arguments of the last direct call of exit_module
  x_out           \* what that call handed to module.exit_json

reportVars == <<x_in, x_out>>

vars == <<store, mainVars, retryVars, cmdVars, reportVars>>

\* --------------------------------------------------------- the store

\* what the store holds for an option name, matched exactly: None when absent
Stored(o) == IF o \in DOMAIN store THEN {store[o]} ELSE {}

Put(s, o, v) == [k \in (DOMAIN s) \cup {o} |-> IF k = o THEN v ELSE s[k]]
Remove(s, o) == [k \in (DOMAIN s) \ {o} |-> s[k]]

\* `ceph config-key dump --format json`: the store as a key/value document
DumpDoc(s) == {<<k, s[k]>> : k \in DOMAIN s}

\* The local out of main between get_config_dump and its next assignment: the
\* text of the dump.  main reads it once, in json.loads, within the step that
\* assigns it, and every path overwrites it before exit_module, so the state
\* keeps a placeholder for it and not the document.
DumpText == <<"{...}">>

\* json.loads of that document: a dict
JsonLoads(doc) == [k \in {p[1] : p \in doc} |-> (CHOOSE p \in doc : p[1] = k)[2]]

\* `ceph config-key set option value`: writes on success only
StoreAfterSet(s, o, v, r) == IF r = 0 THEN Put(s, o, v) ELSE s

\* ----------------------------------------------------- command building

build_base_cmd(p) ==
  <<<<"cephadm">>>>
    \o (IF Truthy(p.docker) THEN <<<<"--docker">>>> ELSE <<>>)
    \o (IF Truthy(p.image) THEN <<<<"--image">>, The(p.image)>> ELSE <<>>)

build_base_cmd_shell_FsidFirst(p) ==
  build_base_cmd(p)
    \o (IF Truthy(p.fsid) THEN <<<<"--fsid">>, The(p.fsid)>> ELSE <<>>)
    \o <<<<"shell">>>>

build_base_cmd_shell(p) ==
  build_base_cmd(p)
    \o <<<<"shell">>>>
    \o (IF Truthy(p.fsid) THEN <<<<"--fsid">>, The(p.fsid)>> ELSE <<>>)

set_option_cmd_Lowered(p, option, value) ==
  build_base_cmd_shell(p)
    \o <<<<"ceph">>, <<"config-key">>, <<"set">>, option, Lower(value)>>

set_option_cmd(p, option, value) ==
  build_base_cmd_shell(p) \o <<<<"ceph">>, <<"config-key">>, <<"set">>, option, value>>

get_config_dump_cmd(p) ==
  build_base_cmd_shell(p)
    \o <<<<"ceph">>, <<"config-key">>, <<"dump">>, <<"--format">>, <<"json">>>>

\* ------------------------------------------------------------- reporting

NoOutcome == [kind |-> "none"]

exit_module_AlwaysChanged(r, c, o, e, ch) ==
  [kind |-> "exit", cmd |-> c, rc |-> r,
   stdout |-> RStripChars(o, CRLF), stderr |-> RStripChars(e, CRLF),
   changed |-> TRUE]

exit_module_StripBoth(r, c, o, e, ch) ==
  [kind |-> "exit", cmd |-> c, rc |-> r,
   stdout |-> LStripChars(RStripChars(o, CRLF), CRLF),
   stderr |-> LStripChars(RStripChars(e, CRLF), CRLF),
   changed |-> ch]

\* out.rstrip("\r\n") and err.rstrip("\r\n"): only the right end is stripped
exit_module(r, c, o, e, ch) ==
  [kind |-> "exit", cmd |-> c, rc |-> r,
   stdout |-> RStripChars(o, CRLF), stderr |-> RStripChars(e, CRLF),
   changed |-> ch]

CheckModeReport_Changed ==
  [kind |-> "exit", cmd |-> <<>>, rc |-> 0, stdout |-> <<>>, stderr |-> <<>>,
   changed |-> TRUE]

CheckModeReport ==
  [kind |-> "exit", cmd |-> <<>>, rc |-> 0, stdout |-> <<>>, stderr |-> <<>>,
   changed |-> FALSE]

\* the f-string of get_config_dump (its quote characters are left out of the chunk)
DumpFailedMsg(e) ==
  <<"Cannot get current configuration via ceph config-key dump.Error:\n">> \o e

fatal(message) == [kind |-> "fail", msg |-> message, rc |-> 1]

AlreadySetMsg_Lowered(option, value) ==
  <<"option=">> \o option \o <<" value=">> \o Lower(value)
    \o <<" already set. Skipping.">>

AlreadySetMsg(option, value) ==
  <<"option=">> \o option \o <<" value=">> \o value \o <<" already set. Skipping.">>

NoValueMsg_NoOption(option) == <<"No value found">>

NoValueMsg(option) == <<"No value found for option=">> \o option

get_current_value_AnyCase(option, config_dump) ==
  IF \E k \in DOMAIN config_dump : Lower(k) = Lower(option)
  THEN Some(config_dump[CHOOSE k \in DOMAIN config_dump : Lower(k) = Lower(option)])
  ELSE None

get_current_value(option, config_dump) ==
  IF option \in DOMAIN config_dump THEN Some(config_dump[option]) ELSE None

AlreadySet_NoLower(value, cur) == Some(value) = cur

AlreadySet_AbsentIsEmpty(value, cur) ==
  Lower(value) = (IF cur = None THEN <<>> ELSE The(cur))

\* the test of main that selects NO_OP: value.lower() == current_value
AlreadySet(value, cur) == Some(Lower(value)) = cur

DumpFailed_Never(r) == FALSE

\* `if rc:` of get_config_dump
DumpFailed(r) == r # 0

IsSetIntent_ByValue(p) == p.value # None

\* `if action == "set":` of main
IsSetIntent(p) == p.action = "set"

\* ---------------------------------------------------------------- main

NoPrev == {}

\* what the next run remembers of the run that just ended
Summary ==
  IF outcome.kind = "exit" /\ ~interfered /\ ~check_mode /\ params.action = "set"
  THEN Some([option |-> params.option, value |-> The(params.value),
             changed |-> outcome.changed, rc |-> outcome.rc,
             stored |-> Stored(params.option)])
  ELSE NoPrev

NoParams ==
  [action |-> "none", option |-> <<>>, value |-> None, fsid |-> None,
   image |-> None, docker |-> None]

NoEnviron == [image |-> None, binary |-> None]
NoBuild == [kind |-> "none"]
NoExit == [kind |-> "none"]

InitMain ==
  /\ store = <<>>
  /\ pc = "idle"
  /\ check_mode = FALSE
  /\ params = NoParams
  /\ rc = 0
  /\ cmd = <<>>
  /\ out = <<>>
  /\ err = <<>>
  /\ changed = FALSE
  /\ current_value = None
  /\ executed = <<>>
  /\ outcome = NoOutcome
  /\ prev = NoPrev
  /\ interfered = FALSE

InitRetry ==
  /\ r_pc = "undecorated"
  /\ retries = 0
  /\ delay = 0
  /\ debug_varargs = FALSE
  /\ tries = 0
  /\ calls = <<>>
  /\ slept = <<>>
  /\ r_result = [kind |-> "none"]
  /\ invocations = <<>>

InitCmd ==
  /\ environ = NoEnviron
  /\ built = <<>>
  /\ built_by = "none"
  /\ b_in = NoBuild

InitReport ==
  /\ x_in = NoExit
  /\ x_out = NoOutcome

Init == InitMain /\ InitRetry /\ InitCmd /\ InitReport

\* AnsibleModule(...) with its required_if, the parameters gathered, and the
\* check-mode exit
Start(a, o, v, f, i, cm) ==
  /\ pc = "idle"
  /\ a = "set" => v # None
  /\ params' = [action |-> a, option |-> o, value |-> v, fsid |-> f, image |-> i,
                docker |-> None]
  /\ check_mode' = cm
  /\ prev' = IF /\ prev # NoPrev
                /\ ~cm
                /\ a = "set"
                /\ The(prev).option = o
                /\ The(prev).value = The(v)
             THEN prev
             ELSE NoPrev
  /\ IF cm
     THEN outcome' = CheckModeReport /\ pc' = "done"
     ELSE outcome' = NoOutcome /\ pc' = "dump"
  /\ UNCHANGED <<store, rc, cmd, out, err, changed, current_value, executed,
                 interfered, retryVars, cmdVars, reportVars>>

\* get_config_dump, json.loads and get_current_value
GetConfigDump(r, e) ==
  /\ pc = "dump"
  /\ LET c == get_config_dump_cmd(params)
         o == IF r = 0 THEN DumpDoc(store) ELSE {}
     IN /\ executed' = Append(executed, [cmd |-> c, rc |-> r, err |-> e])
        /\ IF DumpFailed(r)
           THEN /\ outcome' = fatal(DumpFailedMsg(e))
                /\ pc' = "done"
                /\ UNCHANGED <<rc, cmd, out, err, current_value>>
           ELSE /\ rc' = r
                /\ cmd' = c
                /\ out' = DumpText
                /\ err' = e
                /\ current_value' = get_current_value(params.option, JsonLoads(o))
                /\ pc' = "decide"
                /\ UNCHANGED outcome
  /\ UNCHANGED <<store, check_mode, params, changed, prev, interfered, retryVars,
                 cmdVars, reportVars>>

\* the branches of main that run no further command, each ending in exit_module
Decide ==
  /\ pc = "decide"
  /\ IF IsSetIntent(params)
     THEN IF AlreadySet(The(params.value), current_value)
          THEN /\ out' = AlreadySetMsg(params.option, The(params.value))
               /\ outcome' = exit_module(rc, cmd, out', err, changed)
               /\ pc' = "done"
               /\ UNCHANGED err
          ELSE /\ pc' = "set"
               /\ UNCHANGED <<out, err, outcome>>
     ELSE /\ IF current_value = None
             THEN out' = <<>> /\ err' = NoValueMsg(params.option)
             ELSE out' = The(current_value) /\ UNCHANGED err
          /\ outcome' = exit_module(rc, cmd, out', err', changed)
          /\ pc' = "done"
  /\ UNCHANGED <<store, check_mode, params, rc, cmd, changed, current_value,
                 executed, prev, interfered, retryVars, cmdVars, reportVars>>

\* set_option, changed = True and exit_module
SetOption(r, o, e) ==
  /\ pc = "set"
  /\ LET c == set_option_cmd(params, params.option, The(params.value))
     IN /\ executed' = Append(executed, [cmd |-> c, rc |-> r, out |-> o, err |-> e])
        /\ store' = StoreAfterSet(store, params.option, The(params.value), r)
        /\ rc' = r
        /\ cmd' = c
        /\ out' = Strip(o)
        /\ err' = e
        /\ changed' = TRUE
        /\ outcome' = exit_module(r, c, Strip(o), e, TRUE)
        /\ pc' = "done"
  /\ UNCHANGED <<check_mode, params, current_value, prev, interfered, retryVars,
                 cmdVars, reportVars>>

\* another client of the cluster writes or removes a key; a write after the run
\* has ended is a write before the next run starts (pc = "idle")
ExternalWrite(o, w) ==
  /\ pc # "done"
  /\ store' = IF w = None THEN Remove(store, o) ELSE Put(store, o, The(w))
  /\ store' # store
  /\ interfered' = (pc # "idle")
  /\ prev' = NoPrev
  /\ UNCHANGED <<pc, check_mode, params, rc, cmd, out, err, changed, current_value,
                 executed, outcome, retryVars, cmdVars, reportVars>>

\* the process has ended (exit_json or fail_json); the next task may run the module
Exit ==
  /\ pc = "done"
  /\ pc' = "idle"
  /\ prev' = Summary
  /\ interfered' = FALSE
  /\ params' = NoParams
  /\ check_mode' = FALSE
  /\ rc' = 0
  /\ cmd' = <<>>
  /\ out' = <<>>
  /\ err' = <<>>
  /\ changed' = FALSE
  /\ current_value' = None
  /\ executed' = <<>>
  /\ outcome' = NoOutcome
  /\ UNCHANGED <<store, retryVars, cmdVars, reportVars>>

OptValues == {None} \cup {Some(v) : v \in Values}
\* the value parameter of a run: required for set (required_if), free for get
ParamValues(a) == IF a = "set" THEN {Some(v) : v \in Values} ELSE {None, Some(<<"A">>)}

Next ==
  \/ \E a \in Actions, o \in Options, f \in Fsids, i \in Images, cm \in BOOLEAN :
        \E v \in ParamValues(a) : Start(a, o, v, f, i, cm)
  \/ \E r \in RCs, e \in Errs : GetConfigDump(r, e)
  \/ Decide
  \/ \E r \in RCs, o \in Outs, e \in Errs : SetOption(r, o, e)
  \/ \E o \in Options, w \in OptValues : ExternalWrite(o, w)
  \/ Exit

Spec == Init /\ [][Next]_vars

\* --------------------------------------------------------------- retry

RetryCounts == 0..MaxRetries
Delays == {1, 2}
\* how a call of f ends: it returns, raises an exception matching `exceptions`,
\* or raises another exception
CallOutcomes == {"ok", "retryable", "other"}

NoResult == [kind |-> "none"]
Returned(n) == [kind |-> "returned", call |-> n]
Raised(x, n) == [kind |-> "raised", exc |-> x, call |-> n]

\* `while _tries > 1:`
Guarded_AtLeastOne(t) == t >= 1

Guarded(t) == t > 1

\* `except exceptions:` catches the exceptions that match, and only these
Matches_Any(o) == o # "ok"

Matches(o) == o = "retryable"

\* retry(exceptions, module, retries, delay) applied to f
Decorate(n, d, dv) ==
  /\ r_pc = "undecorated"
  /\ r_pc' = "idle"
  /\ retries' = n
  /\ delay' = d
  /\ debug_varargs' = dv
  /\ UNCHANGED <<tries, calls, slept, r_result, invocations, store, mainVars, cmdVars, reportVars>>

Invoke_KeepTries ==
  /\ r_pc = "idle"
  /\ Len(invocations) < MaxInvocations
  /\ r_pc' = "loop"
  /\ calls' = <<>>
  /\ slept' = <<>>
  /\ r_result' = NoResult
  /\ UNCHANGED <<tries, retries, delay, debug_varargs, invocations, store, mainVars,
                 cmdVars, reportVars>>

\* _retry is entered: _tries = retries
Invoke ==
  /\ r_pc = "idle"
  /\ Len(invocations) < MaxInvocations
  /\ r_pc' = "loop"
  /\ tries' = retries
  /\ calls' = <<>>
  /\ slept' = <<>>
  /\ r_result' = NoResult
  /\ UNCHANGED <<retries, delay, debug_varargs, invocations, store, mainVars, cmdVars, reportVars>>

\* one turn of the while loop: module.debug(_tries), f() inside try, and the
\* except clause
GuardedCall(o) ==
  /\ r_pc = "loop"
  /\ Guarded(tries)
  /\ calls' = Append(calls, o)
  /\ CASE o = "ok" ->
            /\ r_pc' = "returned"
            /\ r_result' = Returned(Len(calls'))
            /\ UNCHANGED <<tries, slept>>
       [] Matches(o) ->
            /\ slept' = Append(slept, delay)
            /\ tries' = tries - 1
            /\ UNCHANGED <<r_pc, r_result>>
       [] OTHER ->
            /\ r_pc' = "raised"
            /\ r_result' = Raised(o, Len(calls'))
            /\ UNCHANGED <<tries, slept>>
  /\ UNCHANGED <<retries, delay, debug_varargs, invocations, store, mainVars, cmdVars, reportVars>>

\* after the loop: module.debug(f, " has failed after ", retries, " retries") and
\* the unguarded f().  AnsibleModule.debug(self, msg) takes one argument, so with
\* an AnsibleModule the four-argument call raises TypeError before f is called;
\* a module object whose debug accepts the arguments lets the call through.
FinalCall(o) ==
  /\ r_pc = "loop"
  /\ ~Guarded(tries)
  /\ IF ~debug_varargs
     THEN /\ r_pc' = "raised"
          /\ r_result' = Raised("TypeError", 0)
          /\ UNCHANGED calls
     ELSE /\ calls' = Append(calls, o)
          /\ IF o = "ok"
             THEN r_pc' = "returned" /\ r_result' = Returned(Len(calls'))
             ELSE r_pc' = "raised" /\ r_result' = Raised(o, Len(calls'))
  /\ UNCHANGED <<retries, delay, debug_varargs, tries, slept, invocations, store,
                 mainVars, cmdVars, reportVars>>

\* the invocation is over: the caller has the result or the exception
Finish ==
  /\ r_pc \in {"returned", "raised"}
  /\ r_pc' = "idle"
  /\ invocations' = Append(invocations, [calls |-> calls, result |-> r_result])
  /\ UNCHANGED <<retries, delay, debug_varargs, tries, calls, slept, r_result, store,
                 mainVars, cmdVars, reportVars>>

NextRetry ==
  \/ \E n \in RetryCounts, d \in Delays, dv \in BOOLEAN : Decorate(n, d, dv)
  \/ Invoke
  \/ \E o \in CallOutcomes : GuardedCall(o)
  \/ \E o \in CallOutcomes : FinalCall(o)
  \/ Finish

SpecRetry == Init /\ [][NextRetry]_vars

\* ----------------------------------------------- the Command Builder

\* the Python None object where a command holds it as a token
PyNone == <<"None">>

\* os.getenv(name): the value, or None when the variable is not set
Getenv(env, name) == env[name]

\* is_containerized(): CEPH_CONTAINER_IMAGE when it is in os.environ, else None
is_containerized(env) ==
  IF env.image # None THEN Getenv(env, "image") ELSE None

FixedOptions ==
  <<<<"--rm">>, <<"--net=host">>,
    <<"-v">>, <<"/etc/ceph:/etc/ceph:z">>,
    <<"-v">>, <<"/var/lib/ceph/:/var/lib/ceph/:z">>,
    <<"-v">>, <<"/var/log/ceph/:/var/log/ceph/:z">>>>

container_exec_AlwaysInteractive(binary, container_image, interactive, env) ==
  LET container_binary == Getenv(env, "binary")
  IN <<IF container_binary = None THEN PyNone ELSE The(container_binary), <<"run">>>>
       \o <<<<"--interactive">>>>
       \o FixedOptions
       \o <<<<"--entrypoint=">> \o binary, container_image>>

\* container_exec(binary, container_image, interactive)
container_exec(binary, container_image, interactive, env) ==
  LET container_binary == Getenv(env, "binary")
  IN <<IF container_binary = None THEN PyNone ELSE The(container_binary), <<"run">>>>
       \o (IF interactive THEN <<<<"--interactive">>>> ELSE <<>>)
       \o FixedOptions
       \o <<<<"--entrypoint=">> \o binary, container_image>>

\* pre_generate_cmd(cmd, container_image, interactive)
pre_generate_cmd(c, container_image, interactive, env) ==
  IF Truthy(container_image)
  THEN container_exec(c, The(container_image), interactive, env)
  ELSE <<c>>

\* the keyring path generate_cmd derives when user_key is None
DefaultKeyring(cluster, user) ==
  <<"/etc/ceph/">> \o cluster \o <<".">> \o user \o <<".keyring">>

generate_cmd_ArgsFirst(c, sub_cmd, args, user_key, cluster, user, container_image, interactive, env) ==
  LET key == IF user_key = None THEN DefaultKeyring(cluster, user) ELSE The(user_key)
      base_cmd == <<<<"-n">>, user, <<"-k">>, key, <<"--cluster">>, cluster>>
  IN pre_generate_cmd(c, container_image, interactive, env)
       \o base_cmd
       \o (IF args = None THEN <<>> ELSE The(args))
       \o (IF sub_cmd # None THEN The(sub_cmd) ELSE <<>>)

\* generate_cmd(cmd, sub_cmd, args, user_key, cluster, user, container_image,
\* interactive)
generate_cmd(c, sub_cmd, args, user_key, cluster, user, container_image, interactive, env) ==
  LET key == IF user_key = None THEN DefaultKeyring(cluster, user) ELSE The(user_key)
      base_cmd == <<<<"-n">>, user, <<"-k">>, key, <<"--cluster">>, cluster>>
                    \o (IF sub_cmd # None THEN The(sub_cmd) ELSE <<>>)
  IN pre_generate_cmd(c, container_image, interactive, env)
       \o (IF args = None THEN base_cmd ELSE base_cmd \o The(args))

Cmds == {<<"ceph">>, <<"rbd">>}
SubCmds == {None, Some(<<<<"osd">>, <<"pool">>>>)}
ArgLists == {None, Some(<<<<"ls">>>>)}
UserKeys == {None, Some(<<"/k">>)}
Clusters == {<<"ceph">>, <<"c">>}
Users == {<<"client.admin">>}
EnvImages == {None, Some(<<>>), Some(<<"i">>)}
EnvBinaries == {None, Some(<<"podman">>)}
Dockers == {None, Some(<<"True">>)}
ShellParams ==
  [action : {"none"}, option : {<<>>}, value : {None}, fsid : Fsids, image : Images,
   docker : Dockers]

\* the environment of the process changes between two builds
SetEnv(img, bin) ==
  /\ environ' = [image |-> img, binary |-> bin]
  /\ environ' # environ
  /\ UNCHANGED <<built, built_by, b_in, store, mainVars, retryVars, reportVars>>

\* a caller builds a ceph command: generate_cmd with
\* container_image=is_containerized(), the environment read at this build
BuildCeph(c, sc, a, uk, cl, u, ia) ==
  /\ built' = generate_cmd(c, sc, a, uk, cl, u, is_containerized(environ), ia, environ)
  /\ built_by' = "generate_cmd"
  /\ b_in' = [kind |-> "generate_cmd", cmd |-> c, sub_cmd |-> sc, args |-> a,
              user_key |-> uk, cluster |-> cl, user |-> u, interactive |-> ia,
              environ |-> environ]
  /\ UNCHANGED <<environ, store, mainVars, retryVars, reportVars>>

\* the layered builder: build_base_cmd_shell(module)
BuildShell(p) ==
  /\ built' = build_base_cmd_shell(p)
  /\ built_by' = "build_base_cmd_shell"
  /\ b_in' = [kind |-> "build_base_cmd_shell", params |-> p, environ |-> environ]
  /\ UNCHANGED <<environ, store, mainVars, retryVars, reportVars>>

NextCmd ==
  \/ \E img \in EnvImages, bin \in EnvBinaries : SetEnv(img, bin)
  \/ \E c \in Cmds, sc \in SubCmds, a \in ArgLists, uk \in UserKeys, cl \in Clusters,
        u \in Users, ia \in BOOLEAN : BuildCeph(c, sc, a, uk, cl, u, ia)
  \/ \E p \in ShellParams : BuildShell(p)

SpecCmd == Init /\ [][NextCmd]_vars

\* ------------------------------------------------------- the report

\* exit_module called on its own, with any stdout and stderr a command can have
\* written: text with newlines and carriage returns at either end and inside
TextChars == {"\n", "\r", "x"}
Texts == UNION {[1..n -> TextChars] : n \in 0..MaxText}

\* exit_module(module, rc, cmd, startd, out, err, changed); module.exit_json ends
\* the process, so there is one call a run
ExitModule ==
  /\ x_in = NoExit
  /\ \E r \in RCs, o \in Texts, e \in Texts, ch \in BOOLEAN :
       /\ x_in' = [kind |-> "exit_module", rc |-> r, out |-> o, err |-> e,
                   changed |-> ch]
       /\ x_out' = exit_module(r, <<<<"ceph">>>>, o, e, ch)
  /\ UNCHANGED <<store, mainVars, retryVars, cmdVars>>

NextReport == ExitModule

SpecReport == Init /\ [][NextReport]_vars

\* ------------------------------------------------------- claims: main

IsSuffix(t, s) == Len(t) <= Len(s) /\ SubSeq(s, Len(s) - Len(t) + 1, Len(s)) = t

HasOp(c, op) ==
  \E i \in 1..(Len(c) - 2) : c[i] = <<"ceph">> /\ c[i + 1] = <<"config-key">> /\ c[i + 2] = op
IsSetCmd(c) == HasOp(c, <<"set">>)
IsDumpCmd(c) == HasOp(c, <<"dump">>)

\* a run of main outside check mode that ended in exit_module or fail_json
RunEnded == pc = "done" /\ ~check_mode
SetRunReported == RunEnded /\ params.action = "set" /\ outcome.kind = "exit"
GetRunReported == RunEnded /\ params.action = "get" /\ outcome.kind = "exit"

\* C1: set is idempotent: when a set run that changed the store (its set
\* command returned 0) is followed, with no other writer, by a set run with the
\* same option and value, the second run reports changed=false, runs no set
\* command, and the stored value is the one the first run left.
C1_SetIdempotent ==
  (SetRunReported /\ prev # NoPrev /\ ~interfered
     /\ The(prev).changed /\ The(prev).rc = 0)
  => /\ ~outcome.changed
     /\ Len(executed) = 1
     /\ Stored(params.option) = The(prev).stored

\* C2: after a successful dump a set command is executed if and only if the
\* lower-cased desired value differs from the current value, which is the stored
\* value of exactly that option name, compared as it is.
C2_ChangeDecision ==
  /\ (pc \in {"decide", "set"} /\ ~interfered)
       => current_value = Stored(params.option)
  /\ pc = "set" => Some(Lower(The(params.value))) # current_value
  /\ SetRunReported
       => /\ Len(executed) = 2 <=> Some(Lower(The(params.value))) # current_value
          /\ outcome.changed <=> Len(executed) = 2
          /\ Len(executed) = 2 => IsSetCmd(executed[2].cmd)
          /\ ~IsSetCmd(executed[1].cmd)

\* desired "A" against stored "a": no set command, changed=false
C2_Witness ==
  /\ SetRunReported
  /\ ~interfered
  /\ params.value = Some(<<"A">>)
  /\ Stored(params.option) = Some(<<"a">>)
  /\ ~outcome.changed
  /\ Len(executed) = 1

\* C3: when the dump returns a nonzero code the run ends in fail_json with the
\* dump's stderr, and no further command is run and no RunReport is produced.
C3_FatalDumpAbort ==
  (executed # <<>> /\ executed[1].rc # 0)
  => /\ pc = "done"
     /\ Len(executed) = 1
     /\ IsDumpCmd(executed[1].cmd)
     /\ outcome.kind = "fail"
     /\ IsSuffix(executed[1].err, outcome.msg)
     /\ outcome.msg # executed[1].err

C3_Witness ==
  /\ pc = "done"
  /\ params.action = "set"
  /\ Len(executed) = 1
  /\ executed[1].rc # 0
  /\ executed[1].err # <<>>
  /\ outcome.kind = "fail"
  /\ Some(Lower(The(params.value))) # Stored(params.option)

C4_Inv ==
  /\ \A i \in 1..Len(executed) :
       IsSetCmd(executed[i].cmd)
         => i = 2 /\ IsDumpCmd(executed[1].cmd) /\ executed[1].rc = 0
  /\ pc \in {"decide", "set"}
       => Len(executed) = 1 /\ IsDumpCmd(executed[1].cmd) /\ executed[1].rc = 0
  /\ pc = "dump" => executed = <<>>

C4_Step ==
  /\ (pc = "dump" /\ pc' = "decide") => current_value' = Stored(params.option)
  /\ pc \in {"decide", "set"} => current_value' = current_value
  /\ (pc = "decide" /\ pc' # pc /\ params.action = "set")
       => (pc' = "set" <=> Some(Lower(The(params.value))) # current_value)
  /\ Len(executed') > Len(executed) => Len(executed') = Len(executed) + 1

\* C4: the dump has returned 0 before the decision is taken, the decision uses
\* the value that dump read (and not a later content of the store), and a set
\* command is only ever the second command of a run, after a successful dump.
C4_PhaseOrdering == []C4_Inv /\ [][C4_Step]_vars

\* a set command executed although the store had changed under the run
C4_Witness ==
  /\ SetRunReported
  /\ interfered
  /\ Len(executed) = 2
  /\ executed[1].rc = 0
  /\ IsSetCmd(executed[2].cmd)

C5_Inv ==
  params.action = "get"
  => /\ \A i \in 1..Len(executed) : ~IsSetCmd(executed[i].cmd)
     /\ Len(executed) <= 1
     /\ pc # "set"
     /\ outcome.kind = "exit" => ~outcome.changed

C5_Step ==
  ((params.action = "get" \/ params'.action = "get") /\ pc' # pc) => store' = store

\* C5: a get run executes no set command, does not change the store, and
\* reports changed=false, whatever the store holds and whatever value is given.
C5_GetNeverMutates == []C5_Inv /\ [][C5_Step]_vars

\* a get run given a value that differs from the stored one
C5_Witness ==
  /\ GetRunReported
  /\ params.value = Some(<<"A">>)
  /\ ~interfered
  /\ Stored(params.option) \notin {None, Some(<<"a">>), Some(<<"A">>)}

\* C6: a get run for an option absent from the dump ends in a RunReport with
\* empty stdout, a stderr message naming the option, the return code of the dump
\* call, and changed=false.
C6_GetUnset ==
  (RunEnded /\ params.action = "get" /\ executed[1].rc = 0 /\ current_value = None)
  => /\ outcome.kind = "exit"
     /\ outcome.stdout = <<>>
     /\ outcome.stderr # <<>>
     /\ outcome.stderr # params.option
     /\ IsSuffix(params.option, outcome.stderr)
     /\ outcome.rc = executed[1].rc
     /\ ~outcome.changed
     /\ outcome.cmd = executed[1].cmd

\* the option asked for is absent while its other-case spelling is stored
C6_Witness ==
  /\ GetRunReported
  /\ ~interfered
  /\ params.option = <<"k">>
  /\ DOMAIN store = {<<"K">>}
  /\ outcome.stdout = <<>>
  /\ executed[1].err # <<>>

\* C9: a set run that decides MUTATE executes exactly one set command, for
\* (option, value), and reports changed=true with the command, return code,
\* stdout and stderr of that set call, whatever its return code.
C9_MutateOutcome ==
  (SetRunReported /\ Some(Lower(The(params.value))) # current_value)
  => /\ Len(executed) = 2
     /\ IsDumpCmd(executed[1].cmd)
     /\ IsSetCmd(executed[2].cmd)
     /\ SubSeq(executed[2].cmd, Len(executed[2].cmd) - 1, Len(executed[2].cmd))
          = <<params.option, The(params.value)>>
     /\ outcome.changed
     /\ outcome.cmd = executed[2].cmd
     /\ outcome.rc = executed[2].rc
     /\ outcome.stdout = Strip(executed[2].out)
     /\ outcome.stderr = RStripChars(executed[2].err, CRLF)

\* the set call failed and printed something else than the dump
C9_Witness ==
  /\ SetRunReported
  /\ Len(executed) = 2
  /\ executed[2].rc # 0
  /\ executed[1].err # executed[2].err
  /\ executed[2].err # <<>>
  /\ outcome.rc = executed[2].rc

C10_Inv ==
  check_mode
  => /\ pc = "done"
     /\ executed = <<>>
     /\ outcome.kind = "exit"
     /\ ~outcome.changed
     /\ outcome.cmd = <<>>
     /\ outcome.stdout = <<>>
     /\ outcome.stderr = <<>>

C10_Step == ((check_mode \/ check_mode') /\ pc' # pc) => store' = store

\* C10: in check mode the run executes no command, leaves the store unchanged
\* and reports changed=false with empty command, stdout and stderr, for get and
\* for set.
C10_CheckMode == []C10_Inv /\ [][C10_Step]_vars

\* a check-mode set run whose value is not the stored one
C10_Witness ==
  /\ check_mode
  /\ pc = "done"
  /\ params.action = "set"
  /\ Some(Lower(The(params.value))) # Stored(params.option)

\* ------------------------------------------------------ claims: retry

InvocationOver == r_pc \in {"returned", "raised"}
AllRetryable == \A i \in 1..Len(calls) : calls[i] = "retryable"

\* C7: for every retries >= 1, an operation that raises a retryable exception on
\* every call is called exactly retries times, and the exception of the last of
\* these calls propagates to the caller.
C7_RetryExhaustion ==
  (InvocationOver /\ retries >= 1 /\ AllRetryable)
  => /\ Len(calls) = retries
     /\ r_result = Raised("retryable", retries)

\* what holds of the code in the same case: retries - 1 guarded calls, then
\* either the unguarded call (a module whose debug accepts four arguments) or
\* the TypeError of module.debug (an AnsibleModule)
C7_AsCoded ==
  (InvocationOver /\ retries >= 1 /\ AllRetryable)
  => IF debug_varargs
     THEN Len(calls) = retries /\ r_result = Raised("retryable", retries)
     ELSE Len(calls) = retries - 1 /\ r_result = Raised("TypeError", 0)

\* the calls of this invocation that failed with a retryable exception before
\* any call ended otherwise
RECURSIVE LeadingRetryable(_)
LeadingRetryable(cs) ==
  IF cs = <<>> \/ Head(cs) # "retryable" THEN 0 ELSE 1 + LeadingRetryable(Tail(cs))

\* C12: retry success path: for retries >= 1 and 0 <= k < retries, an operation
\* that raises a retryable exception on its first k calls and succeeds on call
\* k + 1 is called exactly k + 1 times, delay is slept exactly k times, and the
\* value returned is the result of call k + 1.  An invocation therefore never
\* ends after k < retries retryable failures without call k + 1 being made.
C12_RetrySuccess ==
  (InvocationOver /\ retries >= 1 /\ LeadingRetryable(calls) < retries)
  => LET k == LeadingRetryable(calls) IN
     /\ Len(calls) >= k + 1
     /\ calls[k + 1] = "ok"
          => /\ Len(calls) = k + 1
             /\ slept = [i \in 1..k |-> delay]
             /\ r_result = Returned(k + 1)

\* what holds of the code in the same case: the success path is as stated
\* whenever call k + 1 is made, and it is made unless it would be the unguarded
\* call after module.debug with an AnsibleModule
C12_AsCoded ==
  (InvocationOver /\ retries >= 1 /\ LeadingRetryable(calls) < retries)
  => LET k == LeadingRetryable(calls) IN
     /\ Len(calls) < k + 1
          => (~debug_varargs /\ k = retries - 1 /\ r_result = Raised("TypeError", 0))
     /\ (Len(calls) >= k + 1 /\ calls[k + 1] = "ok")
          => /\ Len(calls) = k + 1
             /\ slept = [i \in 1..k |-> delay]
             /\ r_result = Returned(k + 1)

\* C13: non-retryable failure: a call of f that raises an exception not matching
\* `exceptions` is the last call of its invocation: the exception propagates at
\* once, no sleep follows it (only the retryable failures before it were slept
\* on), and the budget left is not used.
C13_Inv ==
  \A i \in 1..Len(calls) :
    calls[i] = "other"
      => /\ i = Len(calls)
         /\ r_pc # "loop"
         /\ r_result = Raised("other", i)
         /\ Len(slept) = i - 1
         /\ tries = retries - (i - 1)
C13_Step ==
  (r_pc = "loop" /\ r_pc' = "raised" /\ r_result'.exc = "other")
    => (slept' = slept /\ tries' = tries /\ Len(calls') = Len(calls) + 1)
C13_NonRetryable == []C13_Inv /\ [][C13_Step]_vars

\* the second call of three raised a non-retryable exception: one sleep, two
\* calls, two attempts left
C13_Witness ==
  /\ r_pc = "raised"
  /\ retries = 3
  /\ calls = <<"retryable", "other">>
  /\ slept = <<delay>>
  /\ tries = 2
  /\ r_result = Raised("other", 2)

\* C19: the retry budget is per invocation: every invocation starts with
\* _tries = retries whatever the earlier invocations did, so the budget left
\* is retries less the failures this invocation alone has slept on, and an
\* invocation never makes more than retries calls.
C19_Inv ==
  r_pc \in {"loop", "returned", "raised"}
    => /\ tries = retries - Len(slept)
       /\ Len(calls) <= IF retries >= 1 THEN retries ELSE 1
C19_Step ==
  (r_pc = "idle" /\ r_pc' = "loop") => (tries' = retries /\ calls' = <<>>)
C19_BudgetPerInvocation == []C19_Inv /\ [][C19_Step]_vars

\* after an invocation that used its budget up, the next one has failed as
\* often and is at the same point
C19_Witness ==
  /\ retries = 3
  /\ Len(invocations) = 1
  /\ invocations[1].calls = <<"retryable", "retryable">>
  /\ invocations[1].result.kind = "raised"
  /\ r_pc = "loop"
  /\ calls = <<"retryable", "retryable">>
  /\ tries = 1

\* --------------------------------------------- claims: Command Builder

HasToken(c, t) == \E i \in 1..Len(c) : c[i] = t
HasContainerPrefix(c) == Len(c) >= 2 /\ c[2] = <<"run">>
IsPrefix(t, s) == Len(t) <= Len(s) /\ SubSeq(s, 1, Len(t)) = t

\* the fixed shape of a containerized command: engine, run, the optional
\* --interactive, the fixed options, the entrypoint override and the image
Wrapped(c) ==
  \E k \in {2, 3} :
    /\ Len(c) >= k + 10
    /\ c[2] = <<"run">>
    /\ k = 3 => c[3] = <<"--interactive">>
    /\ SubSeq(c, k + 1, k + 8) = FixedOptions
    /\ IsPrefix(<<"--entrypoint=">>, c[k + 9])

\* C8 as stated: with CEPH_CONTAINER_IMAGE unset no built command has a
\* container-run prefix, with it set every built command is wrapped with the
\* fixed structure, and --interactive appears only when it was requested.
C8_ContainerToggle ==
  built_by # "none"
  => /\ b_in.environ.image = None => ~HasContainerPrefix(built)
     /\ b_in.environ.image # None => Wrapped(built)
     /\ HasToken(built, <<"--interactive">>)
          => (b_in.kind = "generate_cmd" /\ b_in.interactive)

\* C8 as amended: with CEPH_CONTAINER_IMAGE unset or empty no built command has a
\* container-run prefix; with it set to a non-empty value every command built by
\* generate_cmd is wrapped with the fixed structure around the binary and that
\* image, while the commands of the layered builder are never wrapped; and
\* --interactive appears only in a wrapped command for which it was requested.
C8_ContainerToggleAmended ==
  /\ built_by # "none"
       => (~Truthy(b_in.environ.image) => ~HasContainerPrefix(built))
  /\ built_by = "generate_cmd"
       => /\ ~Truthy(b_in.environ.image) => built[1] = b_in.cmd
          /\ Truthy(b_in.environ.image)
               => /\ Wrapped(built)
                  /\ HasToken(built, <<"--entrypoint=">> \o b_in.cmd)
                  /\ HasToken(built, The(b_in.environ.image))
          /\ HasToken(built, <<"--interactive">>)
               <=> (b_in.interactive /\ Truthy(b_in.environ.image))
  /\ built_by = "build_base_cmd_shell"
       => /\ ~HasContainerPrefix(built)
          /\ ~HasToken(built, <<"--interactive">>)

\* a wrapped interactive command, and the environment changed since
C8_Witness ==
  /\ built_by = "generate_cmd"
  /\ Truthy(b_in.environ.image)
  /\ b_in.interactive
  /\ Wrapped(built)
  /\ built[3] = <<"--interactive">>
  /\ environ.image = None

\* the container-run invocation around cmd for the build b_in records
ContainerRun(b) ==
  <<IF b.environ.binary = None THEN <<"None">> ELSE The(b.environ.binary), <<"run">>>>
    \o (IF b.interactive THEN <<<<"--interactive">>>> ELSE <<>>)
    \o <<<<"--rm">>, <<"--net=host">>,
         <<"-v">>, <<"/etc/ceph:/etc/ceph:z">>,
         <<"-v">>, <<"/var/lib/ceph/:/var/lib/ceph/:z">>,
         <<"-v">>, <<"/var/log/ceph/:/var/log/ceph/:z">>,
         <<"--entrypoint=">> \o b.cmd, The(b.environ.image)>>

\* the identity, credential and cluster flags, then sub_cmd, then args
CephTail(b) ==
  <<<<"-n">>, b.user, <<"-k">>,
    IF b.user_key # None
      THEN The(b.user_key)
      ELSE <<"/etc/ceph/">> \o b.cluster \o <<".">> \o b.user \o <<".keyring">>,
    <<"--cluster">>, b.cluster>>
    \o (IF b.sub_cmd = None THEN <<>> ELSE The(b.sub_cmd))
    \o (IF b.args = None THEN <<>> ELSE The(b.args))

\* C15: token order: generate_cmd returns exactly
\* prefix ++ ["-n", user, "-k", credential_path, "--cluster", cluster] ++ sub_cmd
\* ++ args: the prefix is [cmd] with no container image and the container-run
\* invocation with one, the credential path is user_key when given and
\* /etc/ceph/{cluster}.{user}.keyring otherwise, and an absent sub_cmd or args
\* adds no token.
C15_TokenOrder ==
  built_by = "generate_cmd"
    => /\ \E prefix \in {<<b_in.cmd>>} \cup
                         (IF b_in.environ.image # None THEN {ContainerRun(b_in)} ELSE {}) :
            built = prefix \o CephTail(b_in)
       /\ b_in.environ.image = None => built = <<b_in.cmd>> \o CephTail(b_in)
       /\ Truthy(b_in.environ.image) => built = ContainerRun(b_in) \o CephTail(b_in)

\* a containerized build with sub_cmd and args and the derived keyring path
C15_Witness ==
  /\ built_by = "generate_cmd"
  /\ Truthy(b_in.environ.image)
  /\ b_in.user_key = None
  /\ b_in.sub_cmd # None
  /\ b_in.args # None
  /\ b_in.cluster = <<"c">>
  /\ HasToken(built, <<"/etc/ceph/">> \o <<"c">> \o <<".">> \o b_in.user \o <<".keyring">>)
  /\ built[Len(built)] = <<"ls">>

\* ----------------------------------------------------- claims: report

StripNewlines(s) == LStripChars(RStripChars(s, {"\n"}), {"\n"})
NewlineAtAnEnd(s) == s # <<>> /\ (s[1] = <<"\n">>[1] \/ s[Len(s)] = <<"\n">>[1])

\* C11: report trimming: the stdout and the stderr exit_module reports are the
\* stdout and stderr handed to it with the leading and the trailing newline
\* characters removed, so neither reported field begins or ends with a newline.
C11_ReportTrimming ==
  x_out.kind = "exit"
    => /\ x_out.stdout = StripNewlines(x_in.out)
       /\ x_out.stderr = StripNewlines(x_in.err)
       /\ ~NewlineAtAnEnd(x_out.stdout)
       /\ ~NewlineAtAnEnd(x_out.stderr)

\* t is s without the carriage returns and newlines at its right end
RightTrimmed(t, s) ==
  /\ IsPrefix(t, s)
  /\ \A i \in (Len(t) + 1)..Len(s) : s[i] \in {"\r", "\n"}
  /\ t # <<>> => t[Len(t)] \notin {"\r", "\n"}

\* C11 as amended: the stdout and the stderr exit_module reports are the stdout
\* and stderr handed to it with the trailing carriage returns and newlines
\* removed and nothing else: neither reported field ends with a newline or a
\* carriage return, and newlines at the left end and inside are kept.
C11_ReportTrimmingAmended ==
  x_out.kind = "exit"
    => /\ RightTrimmed(x_out.stdout, x_in.out)
       /\ RightTrimmed(x_out.stderr, x_in.err)
       /\ x_out.rc = x_in.rc
       /\ x_out.changed = x_in.changed

\* a stderr with newlines at both ends is reported with the leading one, and a
\* stdout that ends with a carriage return and a newline loses both
C11_Witness ==
  /\ x_out.kind = "exit"
  /\ x_in.err = <<"\n", "x", "\n">>
  /\ x_out.stderr = <<"\n", "x">>
  /\ x_in.out = <<"x", "\r", "\n">>
  /\ x_out.stdout = <<"x">>

\* ------------------------------------------- claims: main, the runs

SetExecuted == \E i \in 1..Len(executed) : IsSetCmd(executed[i].cmd)

\* C14: absent versus empty: what the run reads for an option the dump does not
\* hold is None, distinct from every stored string, the empty one too.  A set
\* run on an absent option executes the set command and reports changed = true
\* whatever the desired value, the empty string included; a set run with the
\* desired value "" on an option stored as "" runs no set command and reports
\* changed = false; a get run on an option stored as "" reports an empty stdout
\* and the stderr of the dump, not the no-value-found message.
C14_AbsentVersusEmpty ==
  /\ (pc \in {"decide", "set"} /\ ~interfered)
       => /\ current_value = Stored(params.option)
          /\ current_value = None <=> params.option \notin DOMAIN store
  /\ (SetRunReported /\ current_value = None)
       => /\ Len(executed) = 2
          /\ IsSetCmd(executed[2].cmd)
          /\ outcome.changed
  /\ (RunEnded /\ params.action = "set" /\ outcome.kind = "exit"
        /\ current_value = Some(<<>>) /\ params.value = Some(<<>>))
       => /\ ~SetExecuted
          /\ ~outcome.changed
  /\ (GetRunReported /\ current_value = Some(<<>>))
       => /\ outcome.stdout = <<>>
          /\ outcome.stderr # NoValueMsg(params.option)
          /\ RightTrimmed(outcome.stderr, executed[1].err)

\* a set run with the desired value "" on an option the dump did not hold ran
\* the set command and reported changed = true
C14_Witness ==
  /\ SetRunReported
  /\ current_value = None
  /\ params.value = Some(<<>>)
  /\ Len(executed) = 2
  /\ executed[2].rc = 0
  /\ outcome.changed
  /\ Stored(params.option) = Some(<<>>)

\* C17: the run invariant: outside check mode a run executes at most two
\* commands, the first is the dump, at most one is a set, and the changed flag
\* of the report is true exactly when a set command was executed.
C17_RunInvariant ==
  ~check_mode
    => /\ Len(executed) <= 2
       /\ pc \in {"decide", "set", "done"} => Len(executed) >= 1
       /\ Len(executed) >= 1 => IsDumpCmd(executed[1].cmd) /\ ~IsSetCmd(executed[1].cmd)
       /\ Len(executed) = 2 => IsSetCmd(executed[2].cmd) /\ ~IsDumpCmd(executed[2].cmd)
       /\ (pc = "done" /\ outcome.kind = "exit") => (outcome.changed <=> SetExecuted)
       /\ (pc = "done" /\ outcome.kind = "fail") => ~SetExecuted

\* a run that executed the dump, then the set, and reported changed = true
C17_Witness ==
  /\ RunEnded
  /\ Len(executed) = 2
  /\ IsDumpCmd(executed[1].cmd)
  /\ IsSetCmd(executed[2].cmd)
  /\ outcome.kind = "exit"
  /\ outcome.changed

\* a set run that ended in exit_module without running the set command
NoOpReported == SetRunReported /\ ~SetExecuted

\* C18: the report of a set run that decided NO_OP carries the dump command, the
\* return code of the dump (0) and the stderr of the dump unchanged; only stdout
\* is replaced, by the already-set message naming the option and the desired
\* value as given, not lower-cased.
C18_NoOpReport ==
  NoOpReported
    => /\ outcome.cmd = executed[1].cmd
       /\ IsDumpCmd(outcome.cmd)
       /\ outcome.rc = executed[1].rc
       /\ outcome.rc = 0
       /\ outcome.stderr = executed[1].err
       /\ outcome.stdout
            = <<"option=">> \o params.option \o <<" value=">> \o The(params.value)
                \o <<" already set. Skipping.">>
       /\ ~outcome.changed

\* C18 as amended: as C18, but the stderr reported is the stderr of the dump
\* without the carriage returns and newlines at its right end.
C18_NoOpReportAmended ==
  NoOpReported
    => /\ outcome.cmd = executed[1].cmd
       /\ IsDumpCmd(outcome.cmd)
       /\ outcome.rc = executed[1].rc
       /\ outcome.rc = 0
       /\ RightTrimmed(outcome.stderr, executed[1].err)
       /\ outcome.stdout
            = <<"option=">> \o params.option \o <<" value=">> \o The(params.value)
                \o <<" already set. Skipping.">>
       /\ ~outcome.changed

\* a NO_OP for the desired value "A" on a store holding "a", the dump having
\* written a stderr that ends with a newline
C18_Witness ==
  /\ NoOpReported
  /\ params.value = Some(<<"A">>)
  /\ current_value = Some(<<"a">>)
  /\ executed[1].err = <<"\n", "e", "\n">>
  /\ outcome.stderr = <<"\n", "e">>

\* the layered prefix of the parameters p, up to and including config-key
LayeredPrefix(p) ==
  <<<<"cephadm">>>>
    \o (IF Truthy(p.docker) THEN <<<<"--docker">>>> ELSE <<>>)
    \o (IF Truthy(p.image) THEN <<<<"--image">>, The(p.image)>> ELSE <<>>)
    \o <<<<"shell">>>>
    \o (IF Truthy(p.fsid) THEN <<<<"--fsid">>, The(p.fsid)>> ELSE <<>>)
    \o <<<<"ceph">>, <<"config-key">>>>

\* C16: layered config-key commands: every command a run executes is
\* ["cephadm"] ++ ["--docker"] if docker ++ ["--image", image] if image ++
\* ["shell"] ++ ["--fsid", fsid] if fsid ++ ["ceph", "config-key", op, ...]: the
\* read is op = dump followed by --format json, the write is op = set followed
\* by the option and the value, and the two commands of one run have the same
\* prefix up to config-key.
C16_LayeredCommands ==
  /\ Len(executed) >= 1
       => executed[1].cmd
            = LayeredPrefix(params) \o <<<<"dump">>, <<"--format">>, <<"json">>>>
  /\ Len(executed) >= 2
       => /\ executed[2].cmd
               = LayeredPrefix(params) \o <<<<"set">>, params.option, The(params.value)>>
          /\ \E n \in 1..Len(executed[1].cmd) :
               /\ executed[1].cmd[n] = <<"config-key">>
               /\ executed[2].cmd[n] = <<"config-key">>
               /\ SubSeq(executed[1].cmd, 1, n) = SubSeq(executed[2].cmd, 1, n)
  /\ Len(executed) <= 2

\* a run with an image and an fsid executed the dump and the set
C16_Witness ==
  /\ Len(executed) = 2
  /\ Truthy(params.image)
  /\ Truthy(params.fsid)
  /\ executed[1].cmd[2] = <<"--image">>
  /\ executed[1].cmd[4] = <<"shell">>
  /\ executed[1].cmd[5] = <<"--fsid">>
  /\ executed[2].cmd[9] = <<"set">>

\* the same shape for the layered builder alone, --docker included
C16_LayeredBuilder ==
  built_by = "build_base_cmd_shell"
    => built \o <<<<"ceph">>, <<"config-key">>>> = LayeredPrefix(b_in.params)

====
